---- MODULE Spec2Model ----
(***************************************************************************)
(* The indexer stream engine of duality-front-end-sdk:                     *)
(*   IndexerStream (live EventSource transport, long-polling fallback),    *)
(*   IndexerStreamAccumulateSingleDataSet (accumulation of updates),       *)
(*   fetchDataFromIndexer (one-shot promise wrapper).                      *)
(* Every controller is modelled wrapped by a single-dataset accumulator,   *)
(* whose consumer callbacks are only observed (obs).                       *)
(***************************************************************************)
EXTENDS Integers, Sequences, FiniteSets, TLC

VARIABLES
    opts,    \* [c] options and URL parameters given at construction
    signal,  \* [a] AbortController a: its signal's aborted flag and onabort handler
    stream,  \* [c] IndexerStream c: position in the promise chain, long-polling locals, URL
    source,  \* [c] the EventSource of c: readyState, whether its listeners are attached
    sync,    \* [c] IndexerStreamAccumulateSingleDataSet c: dataSet, dataHeight
    result,  \* [c] the promise returned by fetchDataFromIndexer
    obs,     \* [c] what the consumer callbacks of c have seen
    net,     \* [c] the endpoint's side: responses and events left, last request and status
    feed     \* a fixed sequence of update batches and how far it was delivered

vars == <<opts, signal, stream, source, sync, result, obs, net, feed>>

----------------------------------------------------------------------------
(* Bounds of the model *)

\* heights the endpoint reports are 0..MaxHeight
MaxHeight == 2
\* pull responses and live events (open, update, end, error) the endpoint
\* gives one controller
MaxTraffic == 6
\* the same, when two controllers share one AbortController
SharedTraffic == 3
\* batches in a fixed feed
MaxFeed == 2
\* pages the pull endpoint gives a controller that only polls
MaxPages == 3
\* rows of a batch given to the merge functions, and merges of one snapshot
MaxBatch == 2
MaxMerges == 2
\* the traffic of a controller whose consumer keeps a log of the callbacks
MaxLogTraffic == 4
\* responses the pull endpoint gives a controller whose requests may fail
MaxRetryTraffic == 8

Ctrl == {1, 2}
Ids == {1, 2}
Vals == {0, 1}
Heights == 0 .. MaxHeight

\* a DataRow is [id, value]
Rows == {<<i, v>> : i \in Ids, v \in Vals}
\* the batches of transport events: none or one row of the first id
Batches == {<<>>} \cup {<<r>> : r \in {x \in Rows : x[1] = 1}}

----------------------------------------------------------------------------
(* JavaScript values *)

Undefined == "<undefined>"
Null == "<null>"
\* Number(undefined), Number("x"): compares false with everything
NaN == -1
\* Number.POSITIVE_INFINITY: above every height
POSITIVE_INFINITY == MaxHeight + 2
\* ToBoolean of a string, null or undefined
Truthy(x) == x \notin {Undefined, Null, ""}
\* a < b on numbers
NumLt(a, b) == a # NaN /\ b # NaN /\ a < b
\* x || y on numbers
NumOr(x, y) == IF x = NaN \/ x = 0 THEN y ELSE x

\* EventSource readyState constants
EventSource_CONNECTING == 0
EventSource_OPEN == 1
EventSource_CLOSED == 2

----------------------------------------------------------------------------
(* Accumulation: subscribers.ts 249-277 *)

EmptyMap == [k \in {} |-> 0]

\* a delete that empties the map
MapDelete_Clear(map, id) == EmptyMap

MapDelete(map, id) == [k \in (DOMAIN map) \ {id} |-> map[k]]

\* a set that removes the key when the map has it
MapSet_Flip(map, id, data) ==
    IF id \in DOMAIN map THEN MapDelete(map, id)
    ELSE [k \in (DOMAIN map) \cup {id} |-> IF k = id THEN data ELSE map[k]]

MapSet(map, id, data) == [k \in (DOMAIN map) \cup {id} |-> IF k = id THEN data ELSE map[k]]

\* a removal test that takes every 0 for the removal value
IsRemovalValue_AnyZero(o, data) == data = 0

\* a removal test that takes no value for the removal value
IsRemovalValue_Never(o, data) == FALSE

\* opts.mapEntryRemovalValue === data, with an absent option written <<>>
IsRemovalValue(o, data) == o.mapEntryRemovalValue = <<data>>

\* a merge in which the first row of an id decides, not the last
RECURSIVE accumulateUpdatesUsingMutation_FirstWins(_, _, _)
accumulateUpdatesUsingMutation_FirstWins(map, dataUpdates, o) ==
    IF dataUpdates = <<>> THEN map
    ELSE LET id == Head(dataUpdates)[1]
             data == Head(dataUpdates)[2]
             rest == accumulateUpdatesUsingMutation_FirstWins(map, Tail(dataUpdates), o)
         IN IF IsRemovalValue(o, data) THEN MapDelete(rest, id)
            ELSE MapSet(rest, id, data)

RECURSIVE accumulateUpdatesUsingMutation(_, _, _)
accumulateUpdatesUsingMutation(map, dataUpdates, o) ==
    IF dataUpdates = <<>> THEN map
    ELSE LET id == Head(dataUpdates)[1]
             data == Head(dataUpdates)[2]
             next == IF IsRemovalValue(o, data) THEN MapDelete(map, id)
                     ELSE MapSet(map, id, data)
         IN accumulateUpdatesUsingMutation(next, Tail(dataUpdates), o)

accumulateUpdates(currentMap, dataUpdates, o) ==
    LET newMap == [k \in DOMAIN currentMap |-> currentMap[k]]
    IN accumulateUpdatesUsingMutation(newMap, dataUpdates, o)

\* The same two functions on Map objects: heap is the sequence of the Map
\* objects there are, a reference is an index into it, and the result is the
\* heap afterwards with the reference returned.

\* map.delete / map.set on the object itself, return map (268-276)
accumulateUpdatesUsingMutationAt(heap, map, dataUpdates, o) ==
    [heap |-> [heap EXCEPT ![map] = accumulateUpdatesUsingMutation(@, dataUpdates, o)],
     map |-> map]

\* a copying merge that works on the map it was given
accumulateUpdatesAt_InPlace(heap, currentMap, dataUpdates, o) ==
    accumulateUpdatesUsingMutationAt(heap, currentMap, dataUpdates, o)

\* const newMap = new Map(currentMap) (255), then the merge into newMap (257)
accumulateUpdatesAt(heap, currentMap, dataUpdates, o) ==
    LET newMap == Len(heap) + 1
    IN accumulateUpdatesUsingMutationAt(Append(heap, heap[currentMap]), newMap,
                                        dataUpdates, o)

----------------------------------------------------------------------------
(* The state as one record, so that a handler and everything it calls is one step *)

World ==
    [signal |-> signal, stream |-> stream, source |-> source, sync |-> sync,
     result |-> result, obs |-> obs, net |-> net]

Becomes(w) ==
    /\ signal' = w.signal
    /\ stream' = w.stream
    /\ source' = w.source
    /\ sync' = w.sync
    /\ result' = w.result
    /\ obs' = w.obs
    /\ net' = w.net

Step(w) == Becomes(w) /\ UNCHANGED <<opts, feed>>

\* the controllers constructed with AbortController a
UsersOf(a) == {c \in Ctrl : stream[c].pc # "none" /\ opts[c].abortController = a}

----------------------------------------------------------------------------
(* What the consumer sees *)

\* a callback that reports height h is called
SeenHeight(o, h) ==
    [o EXCEPT !.any = TRUE,
              !.decreased = @ \/ (o.lastH # <<>> /\ NumLt(h, o.lastH[1])),
              !.lastH = <<h>>]

\* onError is called with error e
SeenError(o, e) ==
    [o EXCEPT !.any = TRUE,
              !.errors = @ \cup {e}]

\* a consumer that keeps a log writes down the callback and its arguments
Logged(o, cb, data, height) ==
    IF o.logging THEN [o EXCEPT !.log = Append(@, [cb |-> cb, data |-> data, height |-> height])]
    ELSE o

----------------------------------------------------------------------------
(* fetchDataFromIndexer: fetch.ts 22-50 *)

\* resolve(data), reject(error): a settled promise stays as it is
resolve(r, data) == IF r.state = "pending" THEN [state |-> "resolved", value |-> data] ELSE r
reject(r, e) == IF r.state = "pending" THEN [state |-> "rejected", value |-> e] ELSE r

----------------------------------------------------------------------------
(* IndexerStream.unsubscribe and the abort of its signal: subscribers.ts 242-246 *)

\* the fetch of c rejects; subscribeToLongPolling rejects (232-238) and the
\* constructor's last catch (71-80) reports it; c's signal is aborted already
RejectedFetch(w, cs, e) ==
    [w EXCEPT
        !.stream = [c \in Ctrl |-> IF c \in cs THEN [w.stream[c] EXCEPT !.pc = "failed"]
                                   ELSE w.stream[c]],
        !.obs = [c \in Ctrl |-> IF c \in cs THEN SeenError(w.obs[c], e) ELSE w.obs[c]],
        !.result = [c \in Ctrl |-> IF c \in cs /\ opts[c].fetch THEN reject(w.result[c], e)
                                   ELSE w.result[c]]]

\* signal.onabort = () => eventSource.close() (90): one handler per signal
OnAbortCloses(w, a, c) == w.signal[a].onabort = <<c>>

\* abortController.abort(): the first call sets the flag, removes the listeners
\* registered with the signal (113, 124, 137), runs onabort and rejects the
\* pending fetches (156, 182); a later call does nothing
abort(w, a) ==
    IF w.signal[a].aborted THEN w
    ELSE LET users == UsersOf(a)
             pending == {c \in users : w.stream[c].pc = "fetching"}
             w1 == [w EXCEPT
                 !.signal[a].aborted = TRUE,
                 \* kept for the record: the connections that were open at this abort
                 !.signal[a].open = {c \in users : w.source[c].exists
                                        /\ w.source[c].readyState # EventSource_CLOSED},
                 !.source = [c \in Ctrl |->
                     [readyState |-> IF OnAbortCloses(w, a, c) THEN EventSource_CLOSED
                                     ELSE w.source[c].readyState,
                      exists |-> w.source[c].exists,
                      listening |-> IF c \in users THEN FALSE
                                    ELSE w.source[c].listening]]]
         IN RejectedFetch(w1, pending, "AbortError")

unsubscribe(w, c) == abort(w, opts[c].abortController)

----------------------------------------------------------------------------
(* IndexerStreamAccumulateSingleDataSet: subscribers.ts 288-341 *)

\* this.accumulateUpdates: the copying merge (334), replaced by the mutating
\* one in fetchDataFromIndexer (fetch.ts 48)
AccumulateUpdatesOf(c, map, dataUpdates, o) ==
    IF opts[c].fetch THEN accumulateUpdatesUsingMutation(map, dataUpdates, o)
    ELSE accumulateUpdates(map, dataUpdates, o)

accumulateDataSet(s, c, dataUpdates, o) ==
    AccumulateUpdatesOf(c, s.dataSet, dataUpdates, o)

\* the same on Map objects
AccumulateUpdatesAtOf(c, heap, map, dataUpdates, o) ==
    IF opts[c].fetch THEN accumulateUpdatesUsingMutationAt(heap, map, dataUpdates, o)
    ELSE accumulateUpdatesAt(heap, map, dataUpdates, o)

\* a handler that publishes the snapshot it held before the update
onUpdate_PublishesFirst(w, c, dataUpdates, dataHeight) ==
    LET s1 == [w.sync[c] EXCEPT !.dataHeight = dataHeight]
        s2 == [s1 EXCEPT !.dataSet = accumulateDataSet(s1, c, dataUpdates,
                            [mapEntryRemovalValue |-> opts[c].mapEntryRemovalValue])]
        o1 == Logged(SeenHeight(w.obs[c], dataHeight), "onUpdate", dataUpdates, dataHeight)
        o2 == Logged(SeenHeight(o1, s2.dataHeight), "onAccumulated", s1.dataSet, s2.dataHeight)
    IN [w EXCEPT !.sync[c] = s2, !.obs[c] = o2]

\* the onUpdate handler given to the stream (304-313)
onUpdate(w, c, dataUpdates, dataHeight) ==
    LET s1 == [w.sync[c] EXCEPT !.dataHeight = dataHeight]
        s2 == [s1 EXCEPT !.dataSet = accumulateDataSet(s1, c, dataUpdates,
                            [mapEntryRemovalValue |-> opts[c].mapEntryRemovalValue])]
        \* callbacks.onUpdate(dataUpdates, dataHeight)
        o1 == Logged(SeenHeight(w.obs[c], dataHeight), "onUpdate", dataUpdates, dataHeight)
        \* callbacks.onAccumulated(this.dataSet, this.dataHeight)
        o2 == Logged(SeenHeight(o1, s2.dataHeight), "onAccumulated", s2.dataSet, s2.dataHeight)
    IN [w EXCEPT !.sync[c] = s2, !.obs[c] = o2]

\* the onCompleted handler given to the stream (315-316), and the consumer's
\* in fetchDataFromIndexer (fetch.ts 38-41)
onCompleted(w, c) ==
    LET s == w.sync[c]
        w1 == [w EXCEPT !.obs[c] =
                  Logged([SeenHeight(@, s.dataHeight) EXCEPT !.completed = @ + 1],
                         "onCompleted", s.dataSet, s.dataHeight)]
    IN IF opts[c].fetch
       \* stream.unsubscribe(); resolve(data): the rejection of a fetch the abort
       \* interrupts is handled in a later microtask, after the resolve
       THEN unsubscribe([w1 EXCEPT !.result[c] = resolve(@, s.dataSet)], c)
       ELSE w1

\* onError: callbacks.onError (314), reject in fetchDataFromIndexer (fetch.ts 42)
onError(w, c, e) ==
    [w EXCEPT !.obs[c] = SeenError(@, e),
              !.result[c] = IF opts[c].fetch THEN reject(@, e) ELSE @]

----------------------------------------------------------------------------
(* IndexerStreamAccumulateDualDataSet: subscribers.ts 354-413; its fields are
   dataSets, a pair of maps, and dataHeight *)

\* a pairing that merges each side's rows into the other side's map
accumulateDataSets_Crossed(s, c, dataUpdates, o) ==
    <<AccumulateUpdatesOf(c, s.dataSets[1], dataUpdates[2], o),
      AccumulateUpdatesOf(c, s.dataSets[2], dataUpdates[1], o)>>

\* accumulateDataSet of the dual synchronizer (392-403): a new array of the
\* two merged maps; the indices 0 and 1 of the code are 1 and 2 here
accumulateDataSets(s, c, dataUpdates, o) ==
    <<AccumulateUpdatesOf(c, s.dataSets[1], dataUpdates[1], o),
      AccumulateUpdatesOf(c, s.dataSets[2], dataUpdates[2], o)>>

\* the onUpdate handler given to the stream (371-380)
onUpdateDual(w, c, dataUpdates, dataHeight) ==
    LET s1 == [w.sync[c] EXCEPT !.dataHeight = dataHeight]
        s2 == [s1 EXCEPT !.dataSets = accumulateDataSets(s1, c, dataUpdates,
                            [mapEntryRemovalValue |-> opts[c].mapEntryRemovalValue])]
        \* callbacks.onUpdate(dataUpdates, dataHeight)
        o1 == Logged(SeenHeight(w.obs[c], dataHeight), "onUpdate", dataUpdates, dataHeight)
        \* callbacks.onAccumulated(this.dataSets, this.dataHeight)
        o2 == Logged(SeenHeight(o1, s2.dataHeight), "onAccumulated", s2.dataSets, s2.dataHeight)
    IN [w EXCEPT !.sync[c] = s2, !.obs[c] = o2]

----------------------------------------------------------------------------
(* IndexerStream constructor: the last catch of the chain, subscribers.ts 71-80 *)

catchAll(w, c, e) ==
    LET w1 == [w EXCEPT !.stream[c].pc = "failed"]
        w2 == unsubscribe(w1, c)
    IN onError(w2, c, e)

----------------------------------------------------------------------------
(* IndexerStream.subscribeToLongPolling: subscribers.ts 149-240 *)

maxRetries == 5

\* Number(url.searchParams.get(name)) of a parameter that is absent (<<>>) or a number
NumberOfParam(p) == IF p = <<>> THEN 0 ELSE p[1]

\* Number(range?.to_height)
NumberOfToHeight(range) == IF range = <<>> THEN NaN ELSE range[1].to_height

\* the height ceiling (161-164)
ToHeightOf(o) ==
    IF o.before THEN 0 ELSE NumOr(NumberOfParam(o.to_height), POSITIVE_INFINITY)

\* the top of the inner loop up to the fetch (172-182): the URL is updated in
\* place; a fetch with an aborted signal rejects at once
IssueRequest(w, c) ==
    LET s == w.stream[c]
        url == [from_height |-> IF s.knownHeight # 0 THEN <<s.knownHeight>>
                                ELSE s.url.from_height,
                key |-> IF Truthy(s.nextKey) THEN s.nextKey ELSE s.url.key]
        w1 == [w EXCEPT !.stream[c].url = url, !.stream[c].pc = "fetching"]
    IN IF w.signal[opts[c].abortController].aborted
       THEN catchAll(w1, c, "AbortError")
       ELSE w1

\* while (knownHeight < toHeight) (225), then a new pass (166-167) or the
\* completion (229-231)
OuterCondition(w, c) ==
    LET s == w.stream[c]
    IN IF NumLt(s.knownHeight, s.toHeight)
       THEN IssueRequest([w EXCEPT !.stream[c].retries = 0,
                                   !.stream[c].nextKey = Undefined], c)
       ELSE onCompleted([w EXCEPT !.stream[c].pc = "completed"], c)

\* a page loop that takes every window for drained after one response
InnerCondition_OnePage(w, c) == OuterCondition(w, c)

\* while (nextKey) (224); net.closedOnFailure keeps whether the inner loop was
\* ever left with a last response that was not a 200
InnerCondition(w, c) ==
    IF Truthy(w.stream[c].nextKey)
    THEN IssueRequest(w, c)
    ELSE OuterCondition([w EXCEPT !.net[c].closedOnFailure = @ \/ w.net[c].lastStatus # 200], c)

\* the first pass (158-167); net.polls keeps how often the loop was started
subscribeToLongPolling(w, c) ==
    IssueRequest([w EXCEPT !.net[c].polls = @ + 1,
                           !.stream[c].knownHeight = 0,
                           !.stream[c].toHeight = ToHeightOf(opts[c]),
                           !.stream[c].retries = 0,
                           !.stream[c].nextKey = Undefined], c)

\* response.status === 200 (183-197)
Response200(w, c, page) ==
    LET range == page.block_range
        w1 == onUpdate(w, c, page.data, NumberOfToHeight(range))
        s == w1.stream[c]
        w2 == [w1 EXCEPT
            !.stream[c].knownHeight =
                IF range # <<>> /\ NumLt(s.knownHeight, range[1].to_height)
                THEN range[1].to_height ELSE @,
            !.stream[c].nextKey =
                IF Truthy(page.pagination.next_key) THEN page.pagination.next_key
                ELSE Undefined,
            !.net[c].lastStatus = 200,
            !.net[c].fails = 0]
    IN InnerCondition(w2, c)

\* the StreamOptions the synchronizer hands to its IndexerStream (318-321):
\* abortController and disableSSE; an absent option is written <<>>
StreamOptionsOf(o) ==
    [abortController |-> o.abortController, disableSSE |-> o.disableSSE,
     backoffFunc |-> <<>>]

\* a backoffFunc a consumer may give, and the default one (46), in milliseconds
CustomBackoff(retries) == retries * 10 + 5
DefaultBackoff(retries) == retries * 1000

\* this.backoffFunc(retries) (54-57, 212)
backoffFunc(c, retries) ==
    IF StreamOptionsOf(opts[c]).backoffFunc # <<>> THEN CustomBackoff(retries)
    ELSE DefaultBackoff(retries)

\* any other status (200-223): wait for the backoff, or throw
ResponseFailed(w, c, status) ==
    LET w1 == [w EXCEPT !.net[c].lastStatus = status, !.net[c].fails = @ + 1]
    IN IF w.stream[c].retries < maxRetries
       THEN [w1 EXCEPT !.stream[c].pc = "backoff",
                       !.stream[c].backoffMs = backoffFunc(c, w.stream[c].retries)]
       ELSE catchAll(w1, c, "Could not fetch data")

\* after the timeout (213-215): retries += 1; continue, which in a do-while
\* goes to the loop's condition
AfterBackoff(w, c) ==
    InnerCondition([w EXCEPT !.stream[c].retries = @ + 1,
                             !.stream[c].backoffMs = 0], c)

----------------------------------------------------------------------------
(* IndexerStream.subscribeToSSE: subscribers.ts 83-147 *)

\* reject and resolve of the promise of subscribeToSSE: only the first settles
\* it; the constructor's catch (70) answers a rejection with long-polling
\* a fallback that reports every rejection of subscribeToSSE to onError first
rejectSSE_Reporting(w, c) ==
    IF w.stream[c].pc = "live"
    THEN subscribeToLongPolling(onError(w, c, "SSE error"), c)
    ELSE w

\* a promise that every reject settles again
rejectSSE_Unsettled(w, c) == subscribeToLongPolling(w, c)

rejectSSE(w, c) ==
    IF w.stream[c].pc = "live" THEN subscribeToLongPolling(w, c) ELSE w

resolveSSE(w, c) ==
    IF w.stream[c].pc = "live" THEN [w EXCEPT !.stream[c].pc = "completed"] ELSE w

\* the executor (84-146): new EventSource(url) may throw; addEventListener with
\* a signal that is aborted already adds nothing
subscribeToSSE(w, c, throws) ==
    LET a == opts[c].abortController
        w0 == [w EXCEPT !.stream[c].pc = "live"]
    IN IF throws THEN rejectSSE(w0, c)
       ELSE [w0 EXCEPT
                !.source[c] = [exists |-> TRUE,
                               readyState |-> EventSource_CONNECTING,
                               listening |-> ~w.signal[a].aborted],
                !.signal[a].onabort = <<c>>]

\* JSON.parse of e.data: a row array, something else, or a SyntaxError
JSONParse(data) ==
    CASE data.text = "rows" -> [ok |-> TRUE, truthy |-> TRUE, value |-> data.rows]
      [] data.text = "null" -> [ok |-> TRUE, truthy |-> FALSE, value |-> <<>>]
      [] OTHER -> [ok |-> FALSE, truthy |-> FALSE, value |-> <<>>]

\* Number(s) of a string
NumberOf(str) ==
    IF str = "" THEN 0
    ELSE IF \E h \in Heights : ToString(h) = str
         THEN CHOOSE h \in Heights : ToString(h) = str
         ELSE NaN

\* Number(e.lastEventId.split(':').at(0)), lastEventId given by its parts
HeightOfEventId(lastEventId) == NumberOf(lastEventId[1])

\* the 'update' listener (94-112)
updateListener(w, c, e) ==
    LET parsed == IF e.data.text # "" THEN JSONParse(e.data)
                  ELSE [ok |-> TRUE, truthy |-> FALSE, value |-> <<>>]
        w1 == IF parsed.ok THEN w
              ELSE rejectSSE([w EXCEPT !.obs[c].invalid = TRUE], c)
    IN IF parsed.truthy
       THEN onUpdate(w1, c, parsed.value, HeightOfEventId(e.lastEventId))
       ELSE w1

\* the 'end' listener (118-123)
endListener(w, c) == resolveSSE(onCompleted(w, c), c)

\* if (eventSource.CLOSED) (133): the constant of the instance
ObservedClosed(es) == EventSource_CLOSED # 0

\* the 'error' listener (128-136)
errorListener(w, c) ==
    LET w1 == onError(w, c, "SSE error")
    IN IF ObservedClosed(w1.source[c]) THEN rejectSSE(w1, c) ELSE w1

----------------------------------------------------------------------------
(* What the endpoint may send *)

\* a page of the pull endpoint (IndexerPage, 7-19)
NextKeys == {Null, "a"}
BlockRanges == {<<>>} \cup {<<[to_height |-> h]>> : h \in Heights \ {0}}
Pages == [data : Batches, pagination : [next_key : NextKeys], block_range : BlockRanges]

\* the data and the id of an 'update' event
Payloads ==
    {[text |-> t, rows |-> <<>>] : t \in {"", "null", "{"}}
        \cup {[text |-> "rows", rows |-> b] : b \in Batches}
EventIds == {<<"">>, <<"x">>} \cup {<<ToString(h), "0">> : h \in Heights}
UpdateEvents == [data : Payloads, lastEventId : EventIds]

\* the pages of a paged answer: one row of any id each, linked by next_key
ChainPages ==
    [data : {<<r>> : r \in Rows}, pagination : [next_key : NextKeys],
     block_range : {<<>>, <<[to_height |-> 1]>>}]

\* two batches that change a snapshot: one sets an id, the other writes
\* the value 0 to another
FewBatches == {<<<<1, 1>>>>, <<<<2, 0>>>>}

\* what an endpoint serves: anything, chains of pages, the empty pages of
\* one window, a few pages and updates of height 1, or one page and one
\* update only
PagesOf(serves) ==
    IF serves = "any" THEN Pages
    ELSE IF serves = "chain" THEN ChainPages
    ELSE IF serves = "window"
    THEN [data : {<<>>}, pagination : [next_key : NextKeys], block_range : {<<>>}]
    ELSE IF serves = "few"
    THEN [data : FewBatches, pagination : [next_key : NextKeys],
          block_range : {<<[to_height |-> 1]>>}]
    ELSE {[data |-> <<<<1, 1>>>>, pagination |-> [next_key |-> Null],
           block_range |-> <<[to_height |-> 1]>>]}
UpdateEventsOf(serves) ==
    IF serves = "any" THEN UpdateEvents
    ELSE IF serves = "few"
    THEN {[data |-> [text |-> "rows", rows |-> b], lastEventId |-> <<"1", "0">>] :
            b \in FewBatches}
    ELSE {[data |-> [text |-> "rows", rows |-> <<<<1, 1>>>>], lastEventId |-> <<"1", "0">>]}

----------------------------------------------------------------------------
(* Initial states *)

NoStream ==
    [pc |-> "none", knownHeight |-> 0, toHeight |-> 0, retries |-> 0, backoffMs |-> 0,
     nextKey |-> Undefined, url |-> [from_height |-> <<>>, key |-> Undefined]]
NoSource == [exists |-> FALSE, readyState |-> EventSource_CONNECTING, listening |-> FALSE]
NoObs ==
    [any |-> FALSE, completed |-> 0, errors |-> {}, lastH |-> <<>>,
     decreased |-> FALSE, unsubEarly |-> FALSE, invalid |-> FALSE,
     logging |-> FALSE, log |-> <<>>]
NoFeed == [batches |-> <<>>, seen |-> {}, run |-> 0, stale |-> FALSE]

\* the options of a controller: fetchDataFromIndexer appends pagination.before;
\* block_range.to_height is not read when pagination.before is present
\* (161-164); a backoffFunc is given to subscriptions that only poll, without
\* ceiling or removal value
Options ==
    {o \in [abortController : {1}, disableSSE : BOOLEAN, before : BOOLEAN,
            to_height : {<<>>, <<1>>}, mapEntryRemovalValue : {<<>>, <<0>>},
            fetch : BOOLEAN, backoffFunc : {<<>>, <<"custom">>}] :
        /\ o.fetch => o.before
        /\ o.before => o.to_height = <<>>
        /\ o.backoffFunc # <<>>
            => /\ o.disableSSE /\ ~o.before
               /\ o.to_height = <<>> /\ o.mapEntryRemovalValue = <<>>}

\* controllers cs have been constructed (48-81) and their promise chains
\* wait; their consumers keep a log of the callbacks or not
InitObserved(cs, os, traffic, serves, logging) ==
    /\ opts \in [Ctrl -> os]
    /\ \A c \in Ctrl \ cs : opts[c] = CHOOSE o \in os : TRUE
    /\ signal = [a \in Ctrl |-> [aborted |-> FALSE, onabort |-> <<>>, open |-> {}]]
    /\ stream = [c \in Ctrl |-> IF c \in cs THEN [NoStream EXCEPT !.pc = "negotiating"]
                                ELSE NoStream]
    /\ source = [c \in Ctrl |-> NoSource]
    /\ sync = [c \in Ctrl |-> [dataSet |-> EmptyMap, dataHeight |-> 0]]
    /\ result = [c \in Ctrl |-> [state |-> "pending", value |-> EmptyMap]]
    /\ obs = [c \in Ctrl |-> [NoObs EXCEPT !.logging = logging]]
    /\ net = [c \in Ctrl |-> [left |-> traffic, serves |-> serves, lastStatus |-> 0,
                              fails |-> 0, closedOnFailure |-> FALSE, polls |-> 0]]

InitWith(cs, os, traffic, serves) == InitObserved(cs, os, traffic, serves, FALSE)

Init == InitWith({1}, Options, MaxTraffic, "any") /\ feed = NoFeed

----------------------------------------------------------------------------
(* Steps *)

\* .then(() => this.subscribeToSSE(url, callbacks)) (68)
StartSSE(c) ==
    /\ stream[c].pc = "negotiating"
    /\ ~opts[c].disableSSE
    /\ \E throws \in BOOLEAN : Step(subscribeToSSE(World, c, throws))

\* reject('skip SSE and go to fallback methods') (64, 70)
SkipSSE(c) ==
    /\ stream[c].pc = "negotiating"
    /\ opts[c].disableSSE
    /\ Step(subscribeToLongPolling(World, c))

Spend(w, c) == [w EXCEPT !.net[c].left = @ - 1]

\* the connection of the EventSource is established
SourceOpens(c) ==
    /\ source[c].exists /\ source[c].readyState = EventSource_CONNECTING
    /\ net[c].left > 0
    /\ Step([Spend(World, c) EXCEPT !.source[c].readyState = EventSource_OPEN])

\* an 'update' event arrives
UpdateEvent(c) ==
    /\ source[c].readyState = EventSource_OPEN /\ source[c].listening
    /\ net[c].left > 0
    /\ \E e \in UpdateEventsOf(net[c].serves) : Step(updateListener(Spend(World, c), c, e))

\* an 'end' event arrives
EndEvent(c) ==
    /\ source[c].readyState = EventSource_OPEN /\ source[c].listening
    /\ net[c].left > 0
    /\ Step(endListener(Spend(World, c), c))

\* the connection fails: the EventSource reconnects or gives up, and fires 'error'
ErrorEvent(c) ==
    /\ source[c].exists /\ source[c].readyState # EventSource_CLOSED
    /\ net[c].left > 0
    /\ \E rs \in {EventSource_CONNECTING, EventSource_CLOSED} :
        LET w == [Spend(World, c) EXCEPT !.source[c].readyState = rs]
        IN Step(IF source[c].listening THEN errorListener(w, c) ELSE w)

\* the pull endpoint answers 200 with a page
Respond200(c) ==
    /\ stream[c].pc = "fetching"
    /\ net[c].left > 0
    /\ \E page \in PagesOf(net[c].serves) : Step(Response200(Spend(World, c), c, page))

\* the pull endpoint answers with another status
RespondFailure(c) ==
    /\ stream[c].pc = "fetching"
    /\ net[c].left > 0
    /\ Step(ResponseFailed(Spend(World, c), c, 500))

\* the pull endpoint answers 200 with a body that is no JSON: response.json()
\* throws (188), which the catch of subscribeToLongPolling (232) passes on
RespondUnreadable(c) ==
    /\ stream[c].pc = "fetching"
    /\ net[c].left > 0
    /\ Step(catchAll([Spend(World, c) EXCEPT !.net[c].lastStatus = 200,
                                             !.net[c].fails = 0], c, "SyntaxError"))

\* the backoff timer fires
BackoffElapsed(c) ==
    /\ stream[c].pc = "backoff"
    /\ Step(AfterBackoff(World, c))

\* the consumer calls unsubscribe(), or abort() on the controller it gave
Unsubscribe(c) ==
    /\ stream[c].pc # "none"
    /\ LET users == UsersOf(opts[c].abortController)
           w == [World EXCEPT !.obs = [d \in Ctrl |->
                    IF d \in users /\ ~obs[d].any
                    THEN [obs[d] EXCEPT !.unsubEarly = TRUE]
                    ELSE obs[d]]]
       IN Step(unsubscribe(w, c))

Next ==
    \E c \in Ctrl :
        \/ StartSSE(c)
        \/ SkipSSE(c)
        \/ SourceOpens(c)
        \/ UpdateEvent(c)
        \/ EndEvent(c)
        \/ ErrorEvent(c)
        \/ Respond200(c)
        \/ RespondFailure(c)
        \/ RespondUnreadable(c)
        \/ BackoffElapsed(c)
        \/ Unsubscribe(c)

Spec == Init /\ [][Next]_vars

----------------------------------------------------------------------------
(* A controller whose consumer keeps a log of the callbacks *)

InitLogged == InitObserved({1}, Options, MaxLogTraffic, "few", TRUE) /\ feed = NoFeed

SpecLogged == InitLogged /\ [][Next]_vars

----------------------------------------------------------------------------
(* Two controllers constructed with the same abortController *)

SharedOptions ==
    {o \in Options : ~o.fetch /\ ~o.before /\ o.to_height = <<>>
                     /\ o.mapEntryRemovalValue = <<>> /\ o.backoffFunc = <<>>}

InitShared == InitWith({1, 2}, SharedOptions, SharedTraffic, "one") /\ feed = NoFeed

SpecShared == InitShared /\ [][Next]_vars

----------------------------------------------------------------------------
(* A fixed feed of update batches, batch j of height j, delivered to the
   accumulator of controller 1 in any order and any number of times *)

FeedRows ==
    {<<>>} \cup {<<r>> : r \in Rows}
        \cup {<<r, q>> : r \in {x \in Rows : x[1] = 1}, q \in {x \in Rows : x[1] = 2}}
Feeds == [1 .. MaxFeed -> FeedRows]

InitFeed ==
    /\ InitWith({1}, {o \in Options : ~o.fetch /\ ~o.before /\ o.to_height = <<>>
                                      /\ ~o.disableSSE}, 0, "one")
    /\ \E f \in Feeds : feed = [batches |-> f, seen |-> {}, run |-> 0, stale |-> FALSE]

\* how far the deliveries end with a pass over the feed in height order, a
\* batch possibly repeated: delivering batch j after a pass up to k
RunAfter(k, j) ==
    IF j = k \/ j = k + 1 THEN j
    ELSE IF j = 1 THEN 1
    ELSE 0

\* the transport calls callbacks.onUpdate(batch j, height j) (110, 190): a
\* batch comes first after the batches below it, and again at any time
Deliver(j) ==
    /\ j = 1 \/ j - 1 \in feed.seen
    /\ Becomes(onUpdate(World, 1, feed.batches[j], j))
    /\ feed' = [feed EXCEPT !.seen = @ \cup {j},
                            !.run = RunAfter(feed.run, j),
                            !.stale = @ \/ (\E k \in feed.seen : k > j)]
    /\ UNCHANGED opts

NextFeed == \E j \in 1 .. MaxFeed : Deliver(j)

SpecFeed == InitFeed /\ [][NextFeed]_vars

----------------------------------------------------------------------------
(* A controller that only polls, on an endpoint that answers every request
   with status 200; feed.batches keeps the rows of the pages it was given *)

PullOptions == {o \in Options : o.disableSSE}

InitPull == InitWith({1}, PullOptions, MaxPages, "chain") /\ feed = NoFeed

\* the pull endpoint answers 200 with the next page
RespondPage(c) ==
    /\ stream[c].pc = "fetching"
    /\ net[c].left > 0
    /\ \E page \in PagesOf(net[c].serves) :
        /\ Becomes(Response200(Spend(World, c), c, page))
        /\ feed' = [feed EXCEPT !.batches = Append(@, page.data)]
    /\ UNCHANGED opts

NextPull == SkipSSE(1) \/ RespondPage(1)

SpecPull == InitPull /\ [][NextPull]_vars

----------------------------------------------------------------------------
(* A controller that only polls, on an endpoint whose answers are pages of one
   height window or failures *)

InitRetry == InitWith({1}, PullOptions, MaxRetryTraffic, "window") /\ feed = NoFeed

NextRetry == SkipSSE(1) \/ Respond200(1) \/ RespondFailure(1) \/ BackoffElapsed(1)

SpecRetry == InitRetry /\ [][NextRetry]_vars

----------------------------------------------------------------------------
(* The merge functions on their own: two synchronizers start from the same
   snapshot feed.S and merge the batches feed.A and feed.B, which have no
   id in common, into it, the first with accumulateUpdates and the second,
   as in fetchDataFromIndexer, with accumulateUpdatesUsingMutation *)

MergeBatches == UNION {[1 .. n -> Rows] : n \in 0 .. MaxBatch}

\* the ids of a batch
IdsOf(U) == {U[i][1] : i \in DOMAIN U}
Snapshots == UNION {[d -> Vals] : d \in SUBSET Ids}

MergeOptions ==
    {o \in Options : ~o.disableSSE /\ ~o.before /\ o.to_height = <<>>}

InitMerge ==
    /\ \E o \in MergeOptions :
        opts = [c \in Ctrl |-> [o EXCEPT !.fetch = (c = 2), !.before = (c = 2)]]
    /\ signal = [a \in Ctrl |-> [aborted |-> FALSE, onabort |-> <<>>, open |-> {}]]
    /\ stream = [c \in Ctrl |-> NoStream]
    /\ source = [c \in Ctrl |-> NoSource]
    /\ result = [c \in Ctrl |-> [state |-> "pending", value |-> EmptyMap]]
    /\ obs = [c \in Ctrl |-> NoObs]
    /\ net = [c \in Ctrl |-> [left |-> 0, serves |-> "one", lastStatus |-> 0,
                              fails |-> 0, closedOnFailure |-> FALSE, polls |-> 0]]
    /\ \E S \in Snapshots, A \in MergeBatches, B \in MergeBatches :
        /\ IdsOf(A) \cap IdsOf(B) = {}
        /\ sync = [c \in Ctrl |-> [dataSet |-> S, dataHeight |-> 0]]
        /\ feed = [S |-> S, A |-> A, B |-> B,
                   applied |-> [c \in Ctrl |-> <<>>],
                   results |-> [c \in Ctrl |-> <<>>],
                   heap |-> [c \in Ctrl |-> <<S>>],
                   refs |-> [c \in Ctrl |-> <<>>]]

BatchOf(x) == IF x = "A" THEN feed.A ELSE feed.B
FirstOf(c) == IF c = 1 THEN "A" ELSE "B"

\* the Map object this.dataSet of synchronizer c refers to: the first object
\* of its heap at the start, then what the last merge returned
DataSetRef(c) == IF feed.refs[c] = <<>> THEN 1 ELSE feed.refs[c][Len(feed.refs[c])]

\* this.dataSet = this.accumulateDataSet(dataUpdates, {mapEntryRemovalValue})
\* (308-310); synchronizer 1 merges A first and synchronizer 2 B first;
\* feed.results keeps the map each merge returned as it was then, feed.refs
\* the object returned and feed.heap the objects as they are now
Merge(c, x) ==
    /\ Len(feed.applied[c]) < MaxMerges
    /\ feed.applied[c] = <<>> => x = FirstOf(c)
    /\ LET o == [mapEntryRemovalValue |-> opts[c].mapEntryRemovalValue]
           merged == accumulateDataSet(sync[c], c, BatchOf(x), o)
           at == AccumulateUpdatesAtOf(c, feed.heap[c], DataSetRef(c), BatchOf(x), o)
       IN /\ sync' = [sync EXCEPT ![c].dataSet = merged]
          /\ feed' = [feed EXCEPT !.applied[c] = Append(@, x),
                                  !.results[c] = Append(@, merged),
                                  !.heap[c] = at.heap,
                                  !.refs[c] = Append(@, at.map)]
    /\ UNCHANGED <<opts, signal, stream, source, result, obs, net>>

NextMerge == \E c \in Ctrl, x \in {"A", "B"} : Merge(c, x)

SpecMerge == InitMerge /\ [][NextMerge]_vars

----------------------------------------------------------------------------
(* A dual-dataset synchronizer whose stream gives it update events that carry
   a pair of batches; its consumer keeps a log of the callbacks *)

InitDual ==
    /\ \E o \in MergeOptions : opts = [c \in Ctrl |-> o]
    /\ signal = [a \in Ctrl |-> [aborted |-> FALSE, onabort |-> <<>>, open |-> {}]]
    /\ stream = [c \in Ctrl |-> NoStream]
    /\ source = [c \in Ctrl |-> NoSource]
    /\ sync = [c \in Ctrl |-> [dataSets |-> <<EmptyMap, EmptyMap>>, dataHeight |-> 0]]
    /\ result = [c \in Ctrl |-> [state |-> "pending", value |-> EmptyMap]]
    /\ obs = [c \in Ctrl |-> [NoObs EXCEPT !.logging = (c = 1)]]
    /\ net = [c \in Ctrl |-> [left |-> 0, serves |-> "one", lastStatus |-> 0,
                              fails |-> 0, closedOnFailure |-> FALSE, polls |-> 0]]
    /\ feed = NoFeed

\* the updates the synchronizer has been given
UpdatesLogged(c) == Len(obs[c].log) \div 2

\* the stream calls onUpdate with a pair of batches and a height (110, 190)
DualUpdate(c) ==
    /\ UpdatesLogged(c) < MaxMerges
    /\ \E U0 \in Batches, U1 \in Batches, h \in Heights \ {0} :
        Step(onUpdateDual(World, c, <<U0, U1>>, h))

NextDual == DualUpdate(1)

SpecDual == InitDual /\ [][NextDual]_vars

----------------------------------------------------------------------------
(* Claims *)

Constructed == {c \in Ctrl : stream[c].pc # "none"}
Aborted(c) == signal[opts[c].abortController].aborted
Polling(c) == stream[c].pc \in {"fetching", "backoff"}
Connected(c) == source[c].exists /\ source[c].readyState # EventSource_CLOSED

\* C1: once the pull endpoint has answered maxRetries + 1 requests in a row
\* with a non-200 status, onError has received the retry-exhaustion error and
\* onCompleted has not been called.
C1_RetryExhaustion ==
    \A c \in Constructed :
        net[c].fails >= maxRetries + 1
            => "Could not fetch data" \in obs[c].errors /\ obs[c].completed = 0

\* C2: the inner (page) loop of the polling is left, for onCompleted or for
\* the next height pass, only when its last response was a 200 response; a
\* non-200 response never closes a window.
C2_NoSilentLoss ==
    \A c \in Constructed : ~net[c].closedOnFailure

\* C3: the promise of a one-shot fetch that polls resolves only after a 200
\* page without next_key, with the accumulated snapshot, and with the stream
\* unsubscribed.
C3_FetchAwaitsAllPages ==
    \A c \in Constructed :
        opts[c].fetch /\ opts[c].disableSSE /\ result[c].state = "resolved"
            => /\ net[c].lastStatus = 200
               /\ ~Truthy(stream[c].nextKey)
               /\ result[c].value = sync[c].dataSet
               /\ Aborted(c)

\* the rows of a feed in height order
RECURSIVE RowsUpTo(_, _)
RowsUpTo(f, n) == IF n = 0 THEN <<>> ELSE RowsUpTo(f, n - 1) \o f[n]

\* the snapshot a feed stands for: each id has the value of its last row in
\* height order, and no entry when that value is the removal value
SnapshotOf(f, removal) ==
    LET rows == RowsUpTo(f, Len(f))
        last(id) == CHOOSE i \in DOMAIN rows :
                        rows[i][1] = id /\ \A j \in DOMAIN rows : rows[j][1] = id => j <= i
        kept == {id \in Ids : /\ \E i \in DOMAIN rows : rows[i][1] = id
                              /\ removal # <<rows[last(id)][2]>>}
    IN [id \in kept |-> rows[last(id)][2]]

\* C4 as stated: once every batch of the feed has been delivered at least
\* once, in any order, the snapshot is the one the feed stands for.
C4_ConvergesInAnyOrder ==
    feed.seen = DOMAIN feed.batches /\ feed.seen # {}
        => sync[1].dataSet = SnapshotOf(feed.batches, opts[1].mapEntryRemovalValue)

\* C4 amended: when the deliveries end with a pass over the whole feed in
\* height order (a batch possibly repeated), whatever was delivered before,
\* the snapshot is the one the feed stands for.
C4_ConvergesAfterReplay ==
    feed.run = Len(feed.batches) /\ feed.run > 0
        => sync[1].dataSet = SnapshotOf(feed.batches, opts[1].mapEntryRemovalValue)

\* an earlier batch was delivered again after a later one that wrote another
\* value to the same id, and the feed was then replayed in order
C4_ReplayedAfterStale ==
    /\ feed.run = Len(feed.batches) /\ feed.run > 0
    /\ feed.stale
    /\ \E i, j \in DOMAIN feed.batches :
        /\ i < j
        /\ \E r \in 1 .. Len(feed.batches[i]), q \in 1 .. Len(feed.batches[j]) :
            /\ feed.batches[i][r][1] = feed.batches[j][q][1]
            /\ feed.batches[i][r][2] # feed.batches[j][q][2]

\* C5: the heights given to onUpdate, onAccumulated and onCompleted never
\* decrease from one call to the next.
C5_HeightsNeverDecrease ==
    \A c \in Constructed : ~obs[c].decreased

\* C6: after an unsubscribe() that came before any callback, no callback is
\* ever called.
C6_NoCallbackAfterEarlyCancel ==
    \A c \in Constructed : obs[c].unsubEarly => ~obs[c].any

\* C7: once the signal of a controller is aborted, its EventSource, if it
\* has one, is closed and it has no pull request pending.
C7_CancelReleasesTransport ==
    \A c \in Constructed :
        Aborted(c) => ~Connected(c) /\ stream[c].pc # "fetching"

\* C8: after the abort of a signal that controllers share, every connection
\* that was open at the abort is closed and no controller has a pull request
\* pending.
C8_SharedAbortCancelsAll ==
    \A c \in Constructed :
        LET a == opts[c].abortController
        IN signal[a].aborted
            => /\ c \in signal[a].open => source[c].readyState = EventSource_CLOSED
               /\ stream[c].pc # "fetching"

\* C9: a controller never polls while its EventSource is still connected
\* with its listeners attached.
C9_OneTransportAtATime ==
    \A c \in Constructed : ~(Polling(c) /\ Connected(c) /\ source[c].listening)

\* C10: once an update event with a malformed payload has reached the
\* listener, onError has received the parse error, the signal is aborted and
\* the controller polls no more.
C10_MalformedPayloadIsFatal ==
    \A c \in Constructed :
        obs[c].invalid
            => /\ "Could not parse data" \in obs[c].errors
               /\ Aborted(c)
               /\ ~Polling(c)

\* C11 as stated: onError is called only for fatal conditions, so a
\* controller whose onError was called has failed and polls no more.
C11_OnlyFatalErrorsReported ==
    \A c \in Constructed : obs[c].errors # {} => stream[c].pc = "failed"

\* C11 amended: a live transport that is disabled (disableSSE) or whose
\* setup throws is never reported, only an 'error' event of a connection
\* that was made is ("SSE error"); every other error given to onError is
\* fatal: the controller has failed and its signal is aborted.
C11_SetupFailureNotReported ==
    \A c \in Constructed :
        /\ "SSE error" \in obs[c].errors => source[c].exists /\ ~opts[c].disableSSE
        /\ obs[c].errors \ {"SSE error"} # {} => stream[c].pc = "failed" /\ Aborted(c)

\* the setup of the live transport threw, the controller polls and nothing
\* was reported
C11_PollsAfterThrow ==
    \E c \in Constructed :
        /\ ~opts[c].disableSSE /\ ~source[c].exists
        /\ Polling(c)
        /\ obs[c].errors = {}

\* C12: the step in which the error listener first reports an 'error' event
\* of a live controller takes the controller out of Live exactly when the
\* connection is closed at that moment; with a connection that is still
\* connecting or open the controller stays in Live.
C12_FallbackOnlyWhenClosed ==
    [][\A c \in Constructed :
          /\ stream[c].pc = "live"
          /\ "SSE error" \notin obs[c].errors
          /\ "SSE error" \in obs'[c].errors
          => (stream'[c].pc # "live" <=> source'[c].readyState = EventSource_CLOSED)]_vars

C14_NoCursorOnFirstPage ==
    \A c \in Constructed :
        stream[c].pc = "fetching"
            => stream[c].url.key = IF Truthy(stream[c].nextKey) THEN stream[c].nextKey
                                   ELSE Undefined

\* C15: a controller that only ever polled has had onCompleted called only
\* after a window was drained (its last response a 200 page without
\* next_key) with the known height at or above the ceiling of its URL (0 with
\* pagination.before, else block_range.to_height, else unbounded), and once.
C15_CompletesOnDrainedWindow ==
    \A c \in Constructed :
        ~source[c].exists /\ obs[c].completed > 0
            => /\ net[c].lastStatus = 200
               /\ ~Truthy(stream[c].nextKey)
               /\ stream[c].toHeight = ToHeightOf(opts[c])
               /\ ~NumLt(stream[c].knownHeight, stream[c].toHeight)
               /\ obs[c].completed = 1

\* C16: for a controller that only ever polled, after a 200 page the height
\* last given to the callbacks is the known height, and a pending request
\* carries the known height as block_range.from_height.
C16_KnownHeightReported ==
    \A c \in Constructed :
        ~source[c].exists
            => /\ net[c].lastStatus = 200 /\ obs[c].lastH # <<>>
                    => obs[c].lastH[1] = stream[c].knownHeight
               /\ stream[c].pc = "fetching" /\ stream[c].knownHeight # 0
                    => stream[c].url.from_height = <<stream[c].knownHeight>>

\* C17: while a controller whose consumer gave a backoffFunc waits between
\* two tries, the delay is the one that function gives for the number of
\* retries, and without a backoffFunc it is retries * 1000.
C17_CustomBackoffUsed ==
    \A c \in Constructed :
        stream[c].pc = "backoff"
            => stream[c].backoffMs = IF opts[c].backoffFunc # <<>>
                                     THEN CustomBackoff(stream[c].retries)
                                     ELSE DefaultBackoff(stream[c].retries)

\* the merge as the specification defines it: an id of the batch gets the
\* value of its last row, or no entry when that value is the removal value;
\* every other id keeps its value
MergeReference(S, U, removal) ==
    LET ids == {U[i][1] : i \in DOMAIN U}
        last(id) == CHOOSE i \in DOMAIN U :
                        U[i][1] = id /\ \A j \in DOMAIN U : U[j][1] = id => j <= i
        kept == {id \in ids : removal # <<U[last(id)][2]>>}
    IN [id \in (DOMAIN S \ ids) \cup kept |->
            IF id \in ids THEN U[last(id)][2] ELSE S[id]]

\* the snapshot a synchronizer had before its n-th merge
BeforeMerge(c, n) == IF n = 1 THEN feed.S ELSE feed.results[c][n - 1]

\* C18: every merge, by accumulateUpdates or by
\* accumulateUpdatesUsingMutation, returns the reference merge of the
\* snapshot it was given with the batch it was given.
C18_MergeIsReference ==
    \A c \in Ctrl :
        \A n \in DOMAIN feed.applied[c] :
            feed.results[c][n] = MergeReference(BeforeMerge(c, n), BatchOf(feed.applied[c][n]),
                                                opts[c].mapEntryRemovalValue)

\* both functions have merged a batch in which an id occurs twice, with the
\* removal value first and with the removal value last, into a snapshot
\* that has another id
C18_MergedRepeatedId ==
    /\ feed.applied[1] = <<"A">> /\ feed.applied[2] = <<"B">>
    /\ feed.A = <<<<1, 0>>, <<1, 1>>>>
    /\ feed.B = <<<<2, 1>>, <<2, 0>>>>
    /\ opts[1].mapEntryRemovalValue = <<0>>
    /\ DOMAIN feed.S = {1, 2}
    /\ sync[1].dataSet[1] = 1 /\ 2 \in DOMAIN sync[1].dataSet
    /\ DOMAIN sync[2].dataSet = {1}

\* C19: merging the same batch a second time changes nothing.
C19_MergeIdempotent ==
    \A c \in Ctrl :
        Len(feed.applied[c]) = 2 /\ feed.applied[c][1] = feed.applied[c][2]
            => feed.results[c][2] = feed.results[c][1]

\* a batch with a repeated id and a row of the removal value was merged
\* twice into a snapshot that had the removed id
C19_MergedTwice ==
    /\ feed.applied[1] = <<"A", "A">>
    /\ feed.A = <<<<1, 1>>, <<1, 0>>>>
    /\ opts[1].mapEntryRemovalValue = <<0>>
    /\ 1 \in DOMAIN feed.S
    /\ 1 \notin DOMAIN sync[1].dataSet

\* C20: when the ids of A and B are disjoint, merging A then B and merging
\* B then A give the same mapping.
C20_MergeCommutesOnDisjointIds ==
    /\ feed.applied[1] = <<"A", "B">>
    /\ feed.applied[2] = <<"B", "A">>
    /\ IdsOf(feed.A) \cap IdsOf(feed.B) = {}
    => sync[1].dataSet = sync[2].dataSet

\* two batches of disjoint ids, one of them removing an id of the snapshot,
\* were merged in both orders
C20_MergedBothOrders ==
    /\ feed.applied[1] = <<"A", "B">>
    /\ feed.applied[2] = <<"B", "A">>
    /\ feed.A = <<<<1, 0>>>> /\ feed.B = <<<<2, 1>>>>
    /\ opts[1].mapEntryRemovalValue = <<0>>
    /\ DOMAIN feed.S = {1}
    /\ DOMAIN sync[1].dataSet = {2}

\* C21: merging the batch [(k, 0)] leaves every other entry as it was; with
\* mapEntryRemovalValue = 0 the result has no entry for k (so a snapshot
\* without k stays equal), and without a removal value it has k -> 0.
C21_RemovalSentinel ==
    \A c \in Ctrl :
        \A n \in DOMAIN feed.applied[c] :
            LET U == BatchOf(feed.applied[c][n])
                before == BeforeMerge(c, n)
                after == feed.results[c][n]
            IN (Len(U) = 1 /\ U[1][2] = 0)
                => LET k == U[1][1]
                   IN /\ \A i \in Ids \ {k} :
                            /\ i \in DOMAIN after <=> i \in DOMAIN before
                            /\ i \in DOMAIN before => after[i] = before[i]
                      /\ (opts[c].mapEntryRemovalValue = <<0>>) => (k \notin DOMAIN after)
                      /\ (opts[c].mapEntryRemovalValue = <<>>)
                            => (k \in DOMAIN after /\ after[k] = 0)

\* with the removal value 0, [(1, 0)] was merged into a snapshot that had 1
\* and another id, and once more into the result
C21_RemovedThenNothing ==
    /\ feed.applied[1] = <<"A", "A">>
    /\ feed.A = <<<<1, 0>>>>
    /\ opts[1].mapEntryRemovalValue = <<0>>
    /\ DOMAIN feed.S = {1, 2}
    /\ DOMAIN feed.results[1][1] = {2}
    /\ feed.results[1][2] = feed.results[1][1]

\* the Map object a synchronizer gave to its n-th merge
GivenRef(c, n) == IF n = 1 THEN 1 ELSE feed.refs[c][n - 1]

\* C22: a merge by accumulateUpdates returns an object other than the one it
\* was given, and the object it was given, like every object returned
\* earlier, still holds what it held then, whatever was merged later; a
\* merge by accumulateUpdatesUsingMutation returns the object it was given,
\* which holds the merged map.
C22_CopyingVersusMutating ==
    \A c \in Ctrl :
        \A n \in DOMAIN feed.refs[c] :
            IF opts[c].fetch
            THEN /\ feed.refs[c][n] = GivenRef(c, n)
                 /\ feed.heap[c][feed.refs[c][n]] = sync[c].dataSet
            ELSE /\ feed.refs[c][n] # GivenRef(c, n)
                 /\ feed.heap[c][GivenRef(c, n)] = BeforeMerge(c, n)
                 /\ feed.heap[c][feed.refs[c][n]] = feed.results[c][n]

\* the copying synchronizer has merged two batches that each changed the
\* snapshot, and the mutating one a batch that changed the map it was given
C22_MergedAfterPublishing ==
    /\ feed.applied[1] = <<"A", "B">>
    /\ feed.results[1][1] # feed.S
    /\ feed.results[1][2] # feed.results[1][1]
    /\ feed.applied[2] = <<"B">>
    /\ feed.heap[2][1] # feed.S

\* C23: the log of the consumer of a dual synchronizer is one onUpdate call
\* with the pair [U0, U1] and the height h, then one onAccumulated call with
\* the height h and the pair whose first map is the reference merge of U0
\* into the first map published before (the empty map at the start) and
\* whose second map is that of U1 into the second, and so on.
C23_DualPairing ==
    LET log == obs[1].log
        published(i) == IF i = 1 THEN <<EmptyMap, EmptyMap>> ELSE log[2 * i - 2].data
    IN /\ Len(log) = 2 * UpdatesLogged(1)
       /\ \A i \in 1 .. UpdatesLogged(1) :
            /\ log[2 * i - 1].cb = "onUpdate"
            /\ log[2 * i].cb = "onAccumulated"
            /\ log[2 * i].height = log[2 * i - 1].height
            /\ log[2 * i].data =
                    <<MergeReference(published(i)[1], log[2 * i - 1].data[1],
                                     opts[1].mapEntryRemovalValue),
                      MergeReference(published(i)[2], log[2 * i - 1].data[2],
                                     opts[1].mapEntryRemovalValue)>>
            /\ sync[1].dataHeight = log[Len(log)].height

\* from empty snapshots, the update [[(1, 1)], [(1, 0)]] at height 2 was
\* published as the maps {1: 1} and {1: 0} with height 2
C23_PairPublished ==
    /\ opts[1].mapEntryRemovalValue = <<>>
    /\ Len(obs[1].log) = 2
    /\ obs[1].log[1] = [cb |-> "onUpdate", data |-> <<<<<<1, 1>>>>, <<<<1, 0>>>>>>, height |-> 2]
    /\ obs[1].log[2].cb = "onAccumulated"
    /\ obs[1].log[2].height = 2
    /\ obs[1].log[2].data[1] = (1 :> 1)
    /\ obs[1].log[2].data[2] = (1 :> 0)

\* the snapshot and the height of the last onAccumulated call before the
\* j-th call of a log: the empty snapshot and 0 when there is none
LastAccumulated(log, j) ==
    LET before == {i \in 1 .. j - 1 : log[i].cb = "onAccumulated"}
    IN IF before = {} THEN [data |-> EmptyMap, height |-> 0]
       ELSE LET i == CHOOSE k \in before : \A m \in before : m <= k
            IN [data |-> log[i].data, height |-> log[i].height]

\* C24: in the log of the consumer of a single-dataset synchronizer every
\* onUpdate(B, h) call is followed at once by an onAccumulated call with the
\* height h and the reference merge of B into the snapshot of the
\* onAccumulated call before (the empty one at the start), no onAccumulated
\* call comes otherwise, and every onCompleted call has the snapshot and the
\* height of the last onAccumulated call (the empty snapshot and 0 without).
C24_Republishing ==
    \A c \in Constructed :
        LET log == obs[c].log
        IN \A j \in DOMAIN log :
            /\ log[j].cb = "onUpdate"
                => /\ j < Len(log)
                   /\ log[j + 1].cb = "onAccumulated"
                   /\ log[j + 1].height = log[j].height
                   /\ log[j + 1].data = MergeReference(LastAccumulated(log, j).data,
                                            log[j].data, opts[c].mapEntryRemovalValue)
            /\ log[j].cb = "onAccumulated" => (j > 1 /\ log[j - 1].cb = "onUpdate")
            /\ log[j].cb = "onCompleted"
                => /\ log[j].data = LastAccumulated(log, j).data
                   /\ log[j].height = LastAccumulated(log, j).height

\* two batches that each changed the snapshot were republished and the
\* controller completed
C24_TwoUpdatesThenCompleted ==
    \E c \in Constructed :
        LET log == obs[c].log
        IN /\ Len(log) = 5
           /\ log[5].cb = "onCompleted"
           /\ log[2].data # EmptyMap
           /\ log[4].data # log[2].data
           /\ log[5].data = log[4].data

\* C25: in the log of a consumer an onCompleted call is the last call: no
\* onUpdate, onAccumulated or onCompleted call comes after it.
C25_CompletionIsTerminal ==
    \A c \in Constructed :
        \A j \in DOMAIN obs[c].log :
            obs[c].log[j].cb = "onCompleted" => j = Len(obs[c].log)

\* C26: the polling loop of a controller is started at most once; a
\* controller constructed with disableSSE never has an EventSource and
\* polls once its promise chain has run; so does a controller whose
\* EventSource could not be constructed.
C26_PollingStartedOnce ==
    \A c \in Constructed :
        /\ net[c].polls <= 1
        /\ opts[c].disableSSE => ~source[c].exists
        /\ (stream[c].pc # "negotiating" /\ ~source[c].exists) => net[c].polls = 1

\* the live connection failed twice, with a malformed update and with an
\* error event, and the polling was started once
C26_FailedTwice ==
    \E c \in Constructed :
        /\ "SSE error" \in obs[c].errors
        /\ obs[c].invalid
        /\ net[c].polls = 1
        /\ Polling(c)

\* C27: the retry-exhaustion error is given to onError only when the last
\* maxRetries + 1 responses in a row were failures; a 200 response in
\* between starts the count again.
C27_BudgetCountsConsecutiveFailures ==
    \A c \in Constructed :
        "Could not fetch data" \in obs[c].errors => net[c].fails >= maxRetries + 1

====
